---- MODULE Spec2Model ----
(***************************************************************************)
(* Persistent-memory cache of the PortaPack firmware                       *)
(* (firmware/common/portapack_persistent_memory.cpp).                      *)
(*                                                                         *)
(* A 32-bit word is the tuple of its four bytes, least significant byte    *)
(* first (the Cortex-M memory order), so that values of the full unsigned  *)
(* 32-bit range can be stored, compared and fed to the CRC byte by byte.   *)
(* A signed 32-bit field is read through AsInt32 and written through       *)
(* Int32Word (two's complement).                                           *)
(***************************************************************************)
EXTENDS Integers, Sequences, FiniteSets, TLC

(***************************************************************************)
(* Bounds of the exploration.                                              *)
(***************************************************************************)
\* number of operations the callers perform in one behaviour over all operations
MaxOps == 2
\* number of operations the callers perform in one behaviour over the ranged members
MaxFieldOps == 3
\* number of calls in a behaviour of SpecUi
MaxUiOps == 2
\* number of payloads whose single-bit corruptions are explored
MaxPayloads == 2

(***************************************************************************)
(* C++ integer operators on bytes and 32-bit words.                        *)
(***************************************************************************)
Byte == 0..255

BitOf(a, k) == (a \div (2 ^ k)) % 2

AndBits(a, b) ==
      (BitOf(a, 0) * BitOf(b, 0)) + (2 * BitOf(a, 1) * BitOf(b, 1))
    + (4 * BitOf(a, 2) * BitOf(b, 2)) + (8 * BitOf(a, 3) * BitOf(b, 3))
    + (16 * BitOf(a, 4) * BitOf(b, 4)) + (32 * BitOf(a, 5) * BitOf(b, 5))
    + (64 * BitOf(a, 6) * BitOf(b, 6)) + (128 * BitOf(a, 7) * BitOf(b, 7))

\* the table of a & b on bytes, evaluated once
AndTable == [a \in Byte |-> [b \in Byte |-> AndBits(a, b)]]

And8(a, b) == AndTable[a][b]
Or8(a, b)  == (a + b) - And8(a, b)
Xor8(a, b) == (a + b) - (2 * And8(a, b))

\* x & y, x | y, x ^ y, ~x on uint32_t
BitAnd(x, y) == <<And8(x[1], y[1]), And8(x[2], y[2]), And8(x[3], y[3]), And8(x[4], y[4])>>
BitOr(x, y)  == <<Or8(x[1], y[1]), Or8(x[2], y[2]), Or8(x[3], y[3]), Or8(x[4], y[4])>>
BitXor(x, y) == <<Xor8(x[1], y[1]), Xor8(x[2], y[2]), Xor8(x[3], y[3]), Xor8(x[4], y[4])>>
BitNot(x)    == <<255 - x[1], 255 - x[2], 255 - x[3], 255 - x[4]>>

\* byte j (1..4) of x, 0 outside the word
ByteAt(x, j) == IF j >= 1 /\ j <= 4 THEN x[j] ELSE 0

\* x << k on uint32_t, 0 <= k <= 31: bits shifted past bit 31 are lost
ShiftLeft(x, k) ==
    LET q == k \div 8
        r == k % 8
    IN  [j \in 1..4 |->
            ((ByteAt(x, j - q) * (2 ^ r)) % 256)
          + (ByteAt(x, j - q - 1) \div (2 ^ (8 - r)))]

\* x >> k on uint32_t, 0 <= k <= 31
ShiftRight(x, k) ==
    LET q == k \div 8
        r == k % 8
    IN  [j \in 1..4 |->
            (ByteAt(x, j + q) \div (2 ^ r))
          + ((ByteAt(x, j + q + 1) * (2 ^ (8 - r))) % 256)]

\* the 32-bit pattern of an integer of the int32_t range (two's complement)
Int32Word(v) == <<v % 256, (v \div 256) % 256, (v \div 65536) % 256, (v \div 16777216) % 256>>

\* the int32_t value of a 32-bit pattern
AsInt32(w) == w[1] + (256 * w[2]) + (65536 * w[3])
              + (16777216 * (IF w[4] >= 128 THEN w[4] - 256 ELSE w[4]))

\* a < b on uint32_t
U32Less(a, b) ==
    \/ a[4] < b[4]
    \/ a[4] = b[4] /\ a[3] < b[3]
    \/ a[4] = b[4] /\ a[3] = b[3] /\ a[2] < b[2]
    \/ a[4] = b[4] /\ a[3] = b[3] /\ a[2] = b[2] /\ a[1] < b[1]

ZeroWord == <<0, 0, 0, 0>>

(***************************************************************************)
(* CRC<32>: most significant bit first, no reflection.  process_byte is    *)
(* the eight shift-and-conditionally-subtract steps of the class; the      *)
(* steps of one byte are tabulated once (crc_table) since they depend      *)
(* only on the top byte of the remainder xor the data byte.                *)
(***************************************************************************)
crc_polynomial       == <<183, 29, 193, 4>>      \* 0x04c11db7
crc_initial_remainder == <<255, 255, 255, 255>>  \* 0xffffffff
crc_final_xor_value  == <<255, 255, 255, 255>>   \* 0xffffffff

crc_process_bit(remainder) ==
    IF remainder[4] >= 128
    THEN BitXor(ShiftLeft(remainder, 1), crc_polynomial)
    ELSE ShiftLeft(remainder, 1)

crc_process_bits8(r) ==
    crc_process_bit(crc_process_bit(crc_process_bit(crc_process_bit(
    crc_process_bit(crc_process_bit(crc_process_bit(crc_process_bit(r))))))))

crc_table == [b \in Byte |-> crc_process_bits8(<<0, 0, 0, b>>)]

\* remainder ^= byte << 24, then eight bit steps
process_byte(remainder, byte) ==
    LET t == crc_table[Xor8(remainder[4], byte)]
    IN  <<t[1], Xor8(remainder[1], t[2]), Xor8(remainder[2], t[3]), Xor8(remainder[3], t[4])>>

checksum(remainder) == BitXor(remainder, crc_final_xor_value)

(***************************************************************************)
(* range_t<T>: clip saturates, reset_if_outside replaces.                  *)
(***************************************************************************)
\* std::max(std::min(value, maximum), minimum) on a signed type
clip(range, value) ==
    LET m == IF range.maximum < value THEN range.maximum ELSE value
    IN  IF m < range.minimum THEN range.minimum ELSE m

\* the value left in the variable by reset_if_outside
reset_if_outside(range, value, reset_value) ==
    IF value < range.minimum \/ value > range.maximum THEN reset_value ELSE value

\* range_t<uint32_t>::clip: the same on unsigned words
clip_u32(range, value) ==
    LET m == IF U32Less(range.maximum, value) THEN range.maximum ELSE value
    IN  IF U32Less(m, range.minimum) THEN range.minimum ELSE m

\* range_t<int64_t> on a two-word value <<low word, high word>>
Less64(a, b) ==
    \/ AsInt32(a[2]) < AsInt32(b[2])
    \/ a[2] = b[2] /\ U32Less(a[1], b[1])

clip_i64(range, value) ==
    LET m == IF Less64(range.maximum, value) THEN range.maximum ELSE value
    IN  IF Less64(m, range.minimum) THEN range.minimum ELSE m

reset_if_outside_i64(range, value, reset_value) ==
    IF Less64(value, range.minimum) \/ Less64(range.maximum, value)
    THEN reset_value ELSE value

(***************************************************************************)
(* Ranges and reset values.                                                *)
(***************************************************************************)
tuned_frequency_reset_value == <<Int32Word(100000000), ZeroWord>>
\* rf::tuning_range, owned by the RF path: 100 kHz .. 7250 MHz
tuning_range == [minimum |-> <<Int32Word(100000), ZeroWord>>,
                 maximum |-> <<<<128, 228, 34, 176>>, <<1, 0, 0, 0>>>>]

ppb_range == [minimum |-> -99000, maximum |-> 99000]
ppb_reset_value == 0

tone_mix_range == [minimum |-> 10, maximum |-> 99]
tone_mix_reset_value == 20

afsk_freq_range == [minimum |-> 1, maximum |-> 4000]
afsk_mark_reset_value == 1200
afsk_space_reset_value == 2200

modem_baudrate_range == [minimum |-> 50, maximum |-> 9600]
modem_baudrate_reset_value == 1200

modem_repeat_range == [minimum |-> 1, maximum |-> 99]
modem_repeat_reset_value == 5

clkout_freq_range == [minimum |-> 10, maximum |-> 60000]
clkout_freq_reset_value == 10000

TOUCH_CALIBRATION_MAGIC == <<47, 248, 74, 7>>    \* 0x074af82f

(***************************************************************************)
(* struct data_t: the word index (from 1) of every member in the register  *)
(* file it overlays.  touch::Calibration is seven 32-bit words and         *)
(* serial_format_t four bytes.                                             *)
(***************************************************************************)
CalibrationWords == 7

data_t_offset ==
    [tuned_frequency         |-> 1,      \* int64_t, words 1 and 2
     correction_ppb          |-> 3,
     touch_calibration_magic |-> 4,
     touch_calibration       |-> 5,      \* words 5 .. 11
     modem_def_index         |-> 5 + CalibrationWords,
     serial_format           |-> 6 + CalibrationWords,
     modem_bw                |-> 7 + CalibrationWords,
     afsk_mark_freq          |-> 8 + CalibrationWords,
     afsk_space_freq         |-> 9 + CalibrationWords,
     modem_baudrate          |-> 10 + CalibrationWords,
     modem_repeat            |-> 11 + CalibrationWords,
     playdead_magic          |-> 12 + CalibrationWords,
     playing_dead            |-> 13 + CalibrationWords,
     playdead_sequence       |-> 14 + CalibrationWords,
     ui_config               |-> 15 + CalibrationWords,
     pocsag_last_address     |-> 16 + CalibrationWords,
     pocsag_ignore_address   |-> 17 + CalibrationWords,
     tone_mix                |-> 18 + CalibrationWords,
     hardware_config         |-> 19 + CalibrationWords]

\* sizeof(data_t) in bytes
sizeof_data_t == 4 * (19 + CalibrationWords)

\* touch::Calibration(): the default calibration of the touch subsystem
DefaultCalibration == <<Int32Word(1), Int32Word(2), Int32Word(3), Int32Word(4),
                        Int32Word(5), Int32Word(6), Int32Word(7)>>

\* serial_format_t(): value-initialised
DefaultSerialFormat == ZeroWord

\* the initial value of ui_config without the CLKOUT frequency
ui_config_reset_value_without_clkout ==
    BitOr(BitOr(ShiftLeft(Int32Word(1), 31),
                ShiftLeft(Int32Word(1), 28)),
          ShiftLeft(Int32Word(7), 0))

\* the initial value of ui_config
ui_config_reset_value ==
    BitOr(BitOr(BitOr(ShiftLeft(Int32Word(1), 31),
                      ShiftLeft(Int32Word(1), 28)),
                ShiftLeft(Int32Word(clkout_freq_reset_value), 4)),
          ShiftLeft(Int32Word(7), 0))

\* data_t::data_t(): the words of a default-constructed typed record
data_t ==
    <<tuned_frequency_reset_value[1], tuned_frequency_reset_value[2],
      Int32Word(ppb_reset_value),
      TOUCH_CALIBRATION_MAGIC>>
    \o DefaultCalibration
    \o <<ZeroWord,                               \* modem_def_index
         DefaultSerialFormat,
         Int32Word(15000),                       \* modem_bw
         Int32Word(afsk_mark_reset_value),
         Int32Word(afsk_space_reset_value),
         Int32Word(modem_baudrate_reset_value),
         Int32Word(modem_repeat_reset_value),
         ZeroWord, ZeroWord, ZeroWord,           \* playdead_*
         ui_config_reset_value,
         ZeroWord, ZeroWord,                     \* pocsag_*_address
         Int32Word(tone_mix_reset_value),
         ZeroWord>>                              \* hardware_config

(***************************************************************************)
(* struct backup_ram_t: uint32_t regfile[63]; uint32_t check_value.        *)
(***************************************************************************)
RegfileWords == 63

\* copy without its last statement: the check value of dst is left as it was
copy_without_check_value(src, dst) ==
    [regfile     |-> [i \in 1..RegfileWords |-> src.regfile[i]],
     check_value |-> dst.check_value]

\* backup_ram_t::copy: the value of dst after the loop and the last store
copy(src, dst) ==
    [regfile     |-> [i \in 1..RegfileWords |-> src.regfile[i]],
     check_value |-> src.check_value]

\* backup_ram_t::copy_from_data_t: the value of dst afterwards
copy_from_data_t(src_words, dst) ==
    LET word_count == (sizeof_data_t + 3) \div 4
    IN  [regfile     |-> [i \in 1..RegfileWords |->
                             IF i <= word_count THEN src_words[i] ELSE ZeroWord],
         check_value |-> dst.check_value]

\* the remainder after the words i .. 63 of the register file
RECURSIVE crc_words(_, _, _)
crc_words(remainder, regfile, i) ==
    IF i > RegfileWords THEN remainder
    ELSE LET word == regfile[i]
             r == process_byte(process_byte(process_byte(process_byte(
                      remainder, word[1]), word[2]), word[3]), word[4])
         IN  IF r[1] >= 0 THEN crc_words(r, regfile, i + 1) ELSE r

\* compute_check_value whose loop starts at the second word
compute_check_value_from_second_word(this) ==
    checksum(crc_words(crc_initial_remainder, this.regfile, 2))

\* backup_ram_t::compute_check_value
compute_check_value(this) ==
    checksum(crc_words(crc_initial_remainder, this.regfile, 1))

\* backup_ram_t::backup_ram_t()
backup_ram_t ==
    copy_from_data_t(data_t, [regfile |-> [i \in 1..RegfileWords |-> ZeroWord],
                              check_value |-> ZeroWord])

\* is_valid comparing the remainder before the final xor
is_valid_without_final_xor(this) ==
    crc_words(crc_initial_remainder, this.regfile, 1) = this.check_value

\* backup_ram_t::is_valid
is_valid(this) == compute_check_value(this) = this.check_value

\* persist_to without the update of the check value
persist_to_stale_check(this) == this

\* backup_ram_t::persist_to: the value of `this` afterwards; dst receives a copy of it
persist_to(this) == [this EXCEPT !.check_value = compute_check_value(this)]

(***************************************************************************)
(* State.                                                                  *)
(***************************************************************************)
VARIABLES
    backup_ram,         \* *backup_ram: the record in the battery-backed RAM
    cached_backup_ram,  \* the cache, which `data` overlays
    notified,           \* the values passed to clock_manager.set_reference_ppb, in order
    op,                 \* the operation that was called last
    arg,                \* its argument
    ret,                \* its return value
    steps,              \* number of operations called so far
    budget,             \* number of operations the callers perform in all
    copying,            \* the copy of a persist_to in progress: its position
    other               \* a second execution context that shares the backup RAM

vars == <<backup_ram, cached_backup_ram, notified, op, arg, ret, steps, budget,
          copying, other>>

\* data->member and the cache after data->member = word
data(member) == cached_backup_ram.regfile[data_t_offset[member]]
store(this, member, word) == [this EXCEPT !.regfile[data_t_offset[member]] = word]
assign(member, word) == store(cached_backup_ram, member, word)

\* the words of a multi-word member
data_words(member, count) ==
    [k \in 1..count |-> cached_backup_ram.regfile[data_t_offset[member] + k - 1]]
assign_words(member, words) ==
    [cached_backup_ram EXCEPT !.regfile =
        [i \in 1..RegfileWords |->
            IF i >= data_t_offset[member] /\ i < data_t_offset[member] + Len(words)
            THEN words[i - data_t_offset[member] + 1]
            ELSE cached_backup_ram.regfile[i]]]

NoValue == <<>>

\* no persist_to in progress
NotCopying == [pc |-> "idle", i |-> 0, before |-> NoValue]
\* the second context before it runs: its own cache is default-constructed
OtherIdle == [pc |-> "idle", seen |-> NoValue, cached_backup_ram |-> NoValue]

\* a call of an operation: its name, argument and result are recorded
Call(name, argument, result) ==
    /\ steps < budget
    /\ steps' = steps + 1
    /\ budget' = budget
    /\ op' = name
    /\ arg' = argument
    /\ ret' = result
    /\ UNCHANGED <<copying, other>>

(***************************************************************************)
(* Contents of the backup RAM at power-up.                                 *)
(***************************************************************************)
\* a record with a matching check value written by a build with other ranges:
\* every ranged member is out of range, the calibration magic is absent,
\* reserved members and the words past data_t are in use
ForeignPayload ==
    [i \in 1..RegfileWords |->
        CASE i = 1  -> Int32Word(5)              \* tuned_frequency, low word
          [] i = 3  -> Int32Word(200000)         \* correction_ppb
          [] i = 4  -> ZeroWord                  \* touch_calibration_magic
          [] i = 5  -> Int32Word(77)             \* touch_calibration, first word
          [] i = 13 -> <<8, 1, 1, 0>>            \* serial_format
          [] i = 14 -> Int32Word(1)              \* modem_bw
          [] i = 15 -> Int32Word(0)              \* afsk_mark_freq
          [] i = 16 -> Int32Word(5000)           \* afsk_space_freq
          [] i = 17 -> Int32Word(10)             \* modem_baudrate
          [] i = 18 -> Int32Word(300)            \* modem_repeat
          [] i = 19 -> <<1, 2, 3, 4>>            \* playdead_magic
          [] i = 22 -> <<90, 0, 64, 64>>         \* ui_config 0x4040005a
          [] i = 23 -> <<255, 255, 255, 255>>    \* pocsag_last_address
          [] i = 25 -> Int32Word(-1)             \* tone_mix
          [] i = 26 -> <<3, 1, 0, 0>>            \* hardware_config
          [] i = 40 -> <<222, 173, 190, 239>>    \* past data_t
          [] OTHER  -> ZeroWord]

ForeignImage ==
    [regfile     |-> ForeignPayload,
     check_value |-> compute_check_value([regfile |-> ForeignPayload])]

\* a record persisted with modem_baudrate 9600 whose check value lost bit 0 since
SavedPayload == store(backup_ram_t, "modem_baudrate", Int32Word(9600)).regfile

CorruptImage ==
    [regfile     |-> SavedPayload,
     check_value |-> BitXor(compute_check_value([regfile |-> SavedPayload]),
                            Int32Word(1))]

(***************************************************************************)
(* Initial states: power-up (the cache is statically default-constructed,  *)
(* the backup RAM holds whatever it holds), and the state right after an   *)
(* init() that adopted the foreign record.                                 *)
(***************************************************************************)
\* the variables of the callers' bookkeeping before the first call
NoCallYet(calls) ==
    /\ notified = <<>>
    /\ arg = NoValue
    /\ ret = NoValue
    /\ steps = 0
    /\ budget = calls
    /\ copying = NotCopying
    /\ other = OtherIdle

Init ==
    /\ NoCallYet(MaxOps)
    /\ \/ /\ backup_ram \in {ForeignImage, CorruptImage}
          /\ cached_backup_ram = backup_ram_t
          /\ op = "boot"
       \/ /\ backup_ram = ForeignImage
          /\ cached_backup_ram = ForeignImage
          /\ op = "init"

(***************************************************************************)
(* namespace cache                                                         *)
(***************************************************************************)
\* defaults() that also writes the defaults to the backup RAM
defaults_written_through ==
    /\ Call("defaults", NoValue, NoValue)
    /\ cached_backup_ram' = copy(backup_ram_t, cached_backup_ram)
    /\ backup_ram' = copy(backup_ram_t, backup_ram)
    /\ UNCHANGED notified

defaults ==
    /\ Call("defaults", NoValue, NoValue)
    /\ cached_backup_ram' = copy(backup_ram_t, cached_backup_ram)
    /\ UNCHANGED <<backup_ram, notified>>

\* init() that adopts the backup RAM without checking it
init_unchecked ==
    /\ Call("init", NoValue, NoValue)
    /\ cached_backup_ram' = copy(backup_ram, cached_backup_ram)
    /\ UNCHANGED <<backup_ram, notified>>

init ==
    /\ Call("init", NoValue, NoValue)
    /\ IF is_valid(backup_ram)
       THEN cached_backup_ram' = copy(backup_ram, cached_backup_ram)
       ELSE cached_backup_ram' = copy(backup_ram_t, cached_backup_ram)
    /\ UNCHANGED <<backup_ram, notified>>

persist ==
    /\ Call("persist", NoValue, NoValue)
    /\ cached_backup_ram' = persist_to(cached_backup_ram)
    /\ backup_ram' = copy(cached_backup_ram', backup_ram)
    /\ UNCHANGED notified

(***************************************************************************)
(* Arguments the callers pass.                                             *)
(***************************************************************************)
\* rf::Frequency: below the tuning range, inside it
FrequencyArgs == {<<Int32Word(5), ZeroWord>>, <<Int32Word(433920000), ZeroWord>>}
\* one argument per ranged setter, outside its range
PpbArgs == {500000}
ToneMixArgs == {9}
AfskFreqArgs == {0}
BaudrateArgs == {49}
RepeatArgs == {Int32Word(100)}
ClkoutArgs == {Int32Word(5)}
\* the ranged setters in the longer call sequences over the ranged members:
\* one below the minimum, inside the range, above the maximum
PpbFieldArgs == {-99001, 1500, 500000}
ToneMixFieldArgs == {9, 50, 100}
AfskFreqFieldArgs == {0, 1000, 4001}
BaudrateFieldArgs == {49, 9600, 9601}
\* uint32_t: 0, inside, above the maximum, and with bit 31 set
RepeatFieldArgs == {Int32Word(0), Int32Word(42), Int32Word(100), <<0, 0, 0, 128>>}
\* uint32_t: below the minimum, one below it, inside, above the maximum
ClkoutFieldArgs == {Int32Word(5), Int32Word(9), Int32Word(25000), Int32Word(70000)}
BacklightArgs == {Int32Word(3), Int32Word(9)}
AddressArgs == {Int32Word(1234567)}
CpldArgs == {2}
CalibrationArgs == {<<Int32Word(11), Int32Word(12), Int32Word(13), Int32Word(14),
                      Int32Word(15), Int32Word(16), Int32Word(17)>>}
SerialFormatArgs == {<<7, 2, 1, 1>>}

(***************************************************************************)
(* Scalar members with a range.                                            *)
(***************************************************************************)
tuned_frequency ==
    LET value == reset_if_outside_i64(tuning_range, data_words("tuned_frequency", 2),
                                      tuned_frequency_reset_value)
    IN  /\ Call("tuned_frequency", NoValue, value)
        /\ cached_backup_ram' = assign_words("tuned_frequency", value)
        /\ UNCHANGED <<backup_ram, notified>>

set_tuned_frequency(new_value) ==
    /\ Call("set_tuned_frequency", new_value, NoValue)
    /\ cached_backup_ram' = assign_words("tuned_frequency", clip_i64(tuning_range, new_value))
    /\ UNCHANGED <<backup_ram, notified>>

correction_ppb ==
    LET value == reset_if_outside(ppb_range, AsInt32(data("correction_ppb")), ppb_reset_value)
    IN  /\ Call("correction_ppb", NoValue, value)
        /\ cached_backup_ram' = assign("correction_ppb", Int32Word(value))
        /\ UNCHANGED <<backup_ram, notified>>

set_correction_ppb(new_value) ==
    LET clipped_value == clip(ppb_range, new_value)
    IN  /\ Call("set_correction_ppb", new_value, NoValue)
        /\ cached_backup_ram' = assign("correction_ppb", Int32Word(clipped_value))
        /\ notified' = Append(notified, clipped_value)
        /\ UNCHANGED backup_ram

\* set_touch_calibration without the store of the magic
set_touch_calibration_without_magic(new_value) ==
    /\ Call("set_touch_calibration", new_value, NoValue)
    /\ cached_backup_ram' = assign_words("touch_calibration", new_value)
    /\ UNCHANGED <<backup_ram, notified>>

set_touch_calibration(new_value) ==
    /\ Call("set_touch_calibration", new_value, NoValue)
    /\ cached_backup_ram' =
           store(assign_words("touch_calibration", new_value),
                 "touch_calibration_magic", TOUCH_CALIBRATION_MAGIC)
    /\ UNCHANGED <<backup_ram, notified>>

touch_calibration ==
    LET repaired == IF data("touch_calibration_magic") # TOUCH_CALIBRATION_MAGIC
                    THEN store(assign_words("touch_calibration", DefaultCalibration),
                               "touch_calibration_magic", TOUCH_CALIBRATION_MAGIC)
                    ELSE cached_backup_ram
    IN  /\ Call("touch_calibration", NoValue,
                [k \in 1..CalibrationWords |->
                    repaired.regfile[data_t_offset["touch_calibration"] + k - 1]])
        /\ cached_backup_ram' = repaired
        /\ UNCHANGED <<backup_ram, notified>>

tone_mix ==
    LET value == reset_if_outside(tone_mix_range, AsInt32(data("tone_mix")), tone_mix_reset_value)
    IN  /\ Call("tone_mix", NoValue, value)
        /\ cached_backup_ram' = assign("tone_mix", Int32Word(value))
        /\ UNCHANGED <<backup_ram, notified>>

\* set_tone_mix without the clip
set_tone_mix_unclipped(new_value) ==
    /\ Call("set_tone_mix", new_value, NoValue)
    /\ cached_backup_ram' = assign("tone_mix", Int32Word(new_value))
    /\ UNCHANGED <<backup_ram, notified>>

set_tone_mix(new_value) ==
    /\ Call("set_tone_mix", new_value, NoValue)
    /\ cached_backup_ram' = assign("tone_mix", Int32Word(clip(tone_mix_range, new_value)))
    /\ UNCHANGED <<backup_ram, notified>>

afsk_mark_freq ==
    LET value == reset_if_outside(afsk_freq_range, AsInt32(data("afsk_mark_freq")),
                                  afsk_mark_reset_value)
    IN  /\ Call("afsk_mark_freq", NoValue, value)
        /\ cached_backup_ram' = assign("afsk_mark_freq", Int32Word(value))
        /\ UNCHANGED <<backup_ram, notified>>

set_afsk_mark(new_value) ==
    /\ Call("set_afsk_mark", new_value, NoValue)
    /\ cached_backup_ram' = assign("afsk_mark_freq", Int32Word(clip(afsk_freq_range, new_value)))
    /\ UNCHANGED <<backup_ram, notified>>

afsk_space_freq ==
    LET value == reset_if_outside(afsk_freq_range, AsInt32(data("afsk_space_freq")),
                                  afsk_space_reset_value)
    IN  /\ Call("afsk_space_freq", NoValue, value)
        /\ cached_backup_ram' = assign("afsk_space_freq", Int32Word(value))
        /\ UNCHANGED <<backup_ram, notified>>

set_afsk_space(new_value) ==
    /\ Call("set_afsk_space", new_value, NoValue)
    /\ cached_backup_ram' = assign("afsk_space_freq", Int32Word(clip(afsk_freq_range, new_value)))
    /\ UNCHANGED <<backup_ram, notified>>

modem_baudrate ==
    LET value == reset_if_outside(modem_baudrate_range, AsInt32(data("modem_baudrate")),
                                  modem_baudrate_reset_value)
    IN  /\ Call("modem_baudrate", NoValue, value)
        /\ cached_backup_ram' = assign("modem_baudrate", Int32Word(value))
        /\ UNCHANGED <<backup_ram, notified>>

set_modem_baudrate(new_value) ==
    /\ Call("set_modem_baudrate", new_value, NoValue)
    /\ cached_backup_ram' =
           assign("modem_baudrate", Int32Word(clip(modem_baudrate_range, new_value)))
    /\ UNCHANGED <<backup_ram, notified>>

\* the return type is uint8_t: the stored int32_t is truncated to its low byte
modem_repeat ==
    LET value == reset_if_outside(modem_repeat_range, AsInt32(data("modem_repeat")),
                                  modem_repeat_reset_value)
    IN  /\ Call("modem_repeat", NoValue, value % 256)
        /\ cached_backup_ram' = assign("modem_repeat", Int32Word(value))
        /\ UNCHANGED <<backup_ram, notified>>

\* the uint32_t argument is converted to the int32_t parameter of clip
set_modem_repeat(new_value) ==
    /\ Call("set_modem_repeat", new_value, NoValue)
    /\ cached_backup_ram' =
           assign("modem_repeat", Int32Word(clip(modem_repeat_range, AsInt32(new_value))))
    /\ UNCHANGED <<backup_ram, notified>>

serial_format ==
    /\ Call("serial_format", NoValue, data("serial_format"))
    /\ UNCHANGED <<backup_ram, cached_backup_ram, notified>>

set_serial_format(new_value) ==
    /\ Call("set_serial_format", new_value, NoValue)
    /\ cached_backup_ram' = assign("serial_format", new_value)
    /\ UNCHANGED <<backup_ram, notified>>

(***************************************************************************)
(* ui_config: bits 0-2 backlight timer, bits 4-19 CLKOUT frequency,        *)
(* bits 20-31 single-bit options.                                          *)
(***************************************************************************)
\* the int constant 1, and a bool promoted to int
One == Int32Word(1)
BoolWord(v) == IF v THEN Int32Word(1) ELSE Int32Word(0)

\* data->ui_config & (1 << bit), converted to bool
ui_config_bit(bit) == BitAnd(data("ui_config"), ShiftLeft(One, bit)) # ZeroWord

\* the same without the complement of the mask
ui_config_with_bit_uncomplemented(bit, v) ==
    BitOr(BitAnd(data("ui_config"), ShiftLeft(One, bit)),
          ShiftLeft(BoolWord(v), bit))

\* (data->ui_config & ~(1 << bit)) | (v << bit)
ui_config_with_bit(bit, v) ==
    BitOr(BitAnd(data("ui_config"), BitNot(ShiftLeft(One, bit))),
          ShiftLeft(BoolWord(v), bit))

show_gui_return_icon ==
    /\ Call("show_gui_return_icon", NoValue, ui_config_bit(20))
    /\ UNCHANGED <<backup_ram, cached_backup_ram, notified>>

load_app_settings ==
    /\ Call("load_app_settings", NoValue, ui_config_bit(21))
    /\ UNCHANGED <<backup_ram, cached_backup_ram, notified>>

save_app_settings ==
    /\ Call("save_app_settings", NoValue, ui_config_bit(22))
    /\ UNCHANGED <<backup_ram, cached_backup_ram, notified>>

show_bigger_qr_code ==
    /\ Call("show_bigger_qr_code", NoValue, ui_config_bit(23))
    /\ UNCHANGED <<backup_ram, cached_backup_ram, notified>>

disable_touchscreen ==
    /\ Call("disable_touchscreen", NoValue, ui_config_bit(24))
    /\ UNCHANGED <<backup_ram, cached_backup_ram, notified>>

hide_clock ==
    /\ Call("hide_clock", NoValue, ui_config_bit(25))
    /\ UNCHANGED <<backup_ram, cached_backup_ram, notified>>

clock_with_date ==
    /\ Call("clock_with_date", NoValue, ui_config_bit(26))
    /\ UNCHANGED <<backup_ram, cached_backup_ram, notified>>

clkout_enabled ==
    /\ Call("clkout_enabled", NoValue, ui_config_bit(27))
    /\ UNCHANGED <<backup_ram, cached_backup_ram, notified>>

\* config_speaker returning the bit inverted ("speaker enabled")
config_speaker_inverted ==
    /\ Call("config_speaker", NoValue, ~ui_config_bit(28))
    /\ UNCHANGED <<backup_ram, cached_backup_ram, notified>>

config_speaker ==
    /\ Call("config_speaker", NoValue, ui_config_bit(28))
    /\ UNCHANGED <<backup_ram, cached_backup_ram, notified>>

stealth_mode ==
    /\ Call("stealth_mode", NoValue, ui_config_bit(29))
    /\ UNCHANGED <<backup_ram, cached_backup_ram, notified>>

config_login ==
    /\ Call("config_login", NoValue, ui_config_bit(30))
    /\ UNCHANGED <<backup_ram, cached_backup_ram, notified>>

config_splash ==
    /\ Call("config_splash", NoValue, ui_config_bit(31))
    /\ UNCHANGED <<backup_ram, cached_backup_ram, notified>>

config_cpld ==
    /\ Call("config_cpld", NoValue, data("hardware_config")[1])
    /\ UNCHANGED <<backup_ram, cached_backup_ram, notified>>

timer_seconds == <<0, 5, 15, 30, 60, 180, 300, 600>>

\* Optional<uint32_t>: the empty tuple, or the tuple of the value
config_backlight_timer ==
    LET table_index == AsInt32(BitAnd(data("ui_config"), Int32Word(7)))
    IN  /\ Call("config_backlight_timer", NoValue,
                IF table_index = 0 THEN <<>> ELSE <<timer_seconds[table_index + 1]>>)
        /\ UNCHANGED <<backup_ram, cached_backup_ram, notified>>

set_gui_return_icon(v) ==
    /\ Call("set_gui_return_icon", v, NoValue)
    /\ cached_backup_ram' = assign("ui_config", ui_config_with_bit(20, v))
    /\ UNCHANGED <<backup_ram, notified>>

set_load_app_settings(v) ==
    /\ Call("set_load_app_settings", v, NoValue)
    /\ cached_backup_ram' = assign("ui_config", ui_config_with_bit(21, v))
    /\ UNCHANGED <<backup_ram, notified>>

set_save_app_settings(v) ==
    /\ Call("set_save_app_settings", v, NoValue)
    /\ cached_backup_ram' = assign("ui_config", ui_config_with_bit(22, v))
    /\ UNCHANGED <<backup_ram, notified>>

set_show_bigger_qr_code(v) ==
    /\ Call("set_show_bigger_qr_code", v, NoValue)
    /\ cached_backup_ram' = assign("ui_config", ui_config_with_bit(23, v))
    /\ UNCHANGED <<backup_ram, notified>>

set_disable_touchscreen(v) ==
    /\ Call("set_disable_touchscreen", v, NoValue)
    /\ cached_backup_ram' = assign("ui_config", ui_config_with_bit(24, v))
    /\ UNCHANGED <<backup_ram, notified>>

set_clock_hidden(v) ==
    /\ Call("set_clock_hidden", v, NoValue)
    /\ cached_backup_ram' = assign("ui_config", ui_config_with_bit(25, v))
    /\ UNCHANGED <<backup_ram, notified>>

set_clock_with_date(v) ==
    /\ Call("set_clock_with_date", v, NoValue)
    /\ cached_backup_ram' = assign("ui_config", ui_config_with_bit(26, v))
    /\ UNCHANGED <<backup_ram, notified>>

set_clkout_enabled(v) ==
    /\ Call("set_clkout_enabled", v, NoValue)
    /\ cached_backup_ram' = assign("ui_config", ui_config_with_bit(27, v))
    /\ UNCHANGED <<backup_ram, notified>>

set_config_speaker(v) ==
    /\ Call("set_config_speaker", v, NoValue)
    /\ cached_backup_ram' = assign("ui_config", ui_config_with_bit(28, v))
    /\ UNCHANGED <<backup_ram, notified>>

set_stealth_mode(v) ==
    /\ Call("set_stealth_mode", v, NoValue)
    /\ cached_backup_ram' = assign("ui_config", ui_config_with_bit(29, v))
    /\ UNCHANGED <<backup_ram, notified>>

set_config_login(v) ==
    /\ Call("set_config_login", v, NoValue)
    /\ cached_backup_ram' = assign("ui_config", ui_config_with_bit(30, v))
    /\ UNCHANGED <<backup_ram, notified>>

set_config_splash(v) ==
    /\ Call("set_config_splash", v, NoValue)
    /\ cached_backup_ram' = assign("ui_config", ui_config_with_bit(31, v))
    /\ UNCHANGED <<backup_ram, notified>>

set_config_cpld(i) ==
    /\ Call("set_config_cpld", i, NoValue)
    /\ cached_backup_ram' = assign("hardware_config", Int32Word(i))
    /\ UNCHANGED <<backup_ram, notified>>

\* set_config_backlight_timer without the mask on its argument
set_config_backlight_timer_unmasked(i) ==
    /\ Call("set_config_backlight_timer", i, NoValue)
    /\ cached_backup_ram' =
           assign("ui_config", BitOr(BitAnd(data("ui_config"), BitNot(Int32Word(7))), i))
    /\ UNCHANGED <<backup_ram, notified>>

set_config_backlight_timer(i) ==
    /\ Call("set_config_backlight_timer", i, NoValue)
    /\ cached_backup_ram' =
           assign("ui_config", BitOr(BitAnd(data("ui_config"), BitNot(Int32Word(7))),
                                     BitAnd(i, Int32Word(7))))
    /\ UNCHANGED <<backup_ram, notified>>

pocsag_last_address ==
    /\ Call("pocsag_last_address", NoValue, data("pocsag_last_address"))
    /\ UNCHANGED <<backup_ram, cached_backup_ram, notified>>

set_pocsag_last_address(address) ==
    /\ Call("set_pocsag_last_address", address, NoValue)
    /\ cached_backup_ram' = assign("pocsag_last_address", address)
    /\ UNCHANGED <<backup_ram, notified>>

pocsag_ignore_address ==
    /\ Call("pocsag_ignore_address", NoValue, data("pocsag_ignore_address"))
    /\ UNCHANGED <<backup_ram, cached_backup_ram, notified>>

set_pocsag_ignore_address(address) ==
    /\ Call("set_pocsag_ignore_address", address, NoValue)
    /\ cached_backup_ram' = assign("pocsag_ignore_address", address)
    /\ UNCHANGED <<backup_ram, notified>>

clkout_freq_mask == <<240, 255, 15, 0>>          \* 0x000ffff0

\* uint16_t freq = (data->ui_config & 0x000FFFF0) >> 4
clkout_freq_field(ui_config) ==
    AsInt32(ShiftRight(BitAnd(ui_config, clkout_freq_mask), 4)) % 65536

\* clkout_freq whose repair does not clear the old frequency bits
clkout_freq_without_clearing ==
    LET freq == clkout_freq_field(data("ui_config"))
    IN  IF freq < clkout_freq_range.minimum \/ freq > clkout_freq_range.maximum
        THEN /\ Call("clkout_freq", NoValue, clkout_freq_reset_value)
             /\ cached_backup_ram' =
                    assign("ui_config",
                           BitOr(data("ui_config"),
                                 ShiftLeft(Int32Word(clkout_freq_reset_value), 4)))
             /\ UNCHANGED <<backup_ram, notified>>
        ELSE /\ Call("clkout_freq", NoValue, freq)
             /\ UNCHANGED <<backup_ram, cached_backup_ram, notified>>

clkout_freq ==
    LET freq == clkout_freq_field(data("ui_config"))
    IN  IF freq < clkout_freq_range.minimum \/ freq > clkout_freq_range.maximum
        THEN /\ Call("clkout_freq", NoValue, clkout_freq_reset_value)
             /\ cached_backup_ram' =
                    assign("ui_config",
                           BitOr(BitAnd(data("ui_config"), BitNot(clkout_freq_mask)),
                                 ShiftLeft(Int32Word(clkout_freq_reset_value), 4)))
             /\ UNCHANGED <<backup_ram, notified>>
        ELSE /\ Call("clkout_freq", NoValue, freq)
             /\ UNCHANGED <<backup_ram, cached_backup_ram, notified>>

\* set_clkout_freq without the clip
set_clkout_freq_unclipped(freq) ==
    /\ Call("set_clkout_freq", freq, NoValue)
    /\ cached_backup_ram' =
           assign("ui_config",
                  BitOr(BitAnd(data("ui_config"), BitNot(clkout_freq_mask)),
                        BitAnd(ShiftLeft(freq, 4), clkout_freq_mask)))
    /\ UNCHANGED <<backup_ram, notified>>

set_clkout_freq(freq) ==
    /\ Call("set_clkout_freq", freq, NoValue)
    /\ cached_backup_ram' =
           assign("ui_config",
                  BitOr(BitAnd(data("ui_config"), BitNot(clkout_freq_mask)),
                        ShiftLeft(clip_u32([minimum |-> Int32Word(clkout_freq_range.minimum),
                                            maximum |-> Int32Word(clkout_freq_range.maximum)],
                                           freq), 4)))
    /\ UNCHANGED <<backup_ram, notified>>

(***************************************************************************)
(* The callers invoke the operations one after the other, in any order.    *)
(***************************************************************************)
Next ==
    \/ defaults
    \/ init
    \/ persist
    \/ tuned_frequency
    \/ \E v \in FrequencyArgs : set_tuned_frequency(v)
    \/ correction_ppb
    \/ \E v \in PpbArgs : set_correction_ppb(v)
    \/ \E v \in CalibrationArgs : set_touch_calibration(v)
    \/ touch_calibration
    \/ tone_mix
    \/ \E v \in ToneMixArgs : set_tone_mix(v)
    \/ afsk_mark_freq
    \/ \E v \in AfskFreqArgs : set_afsk_mark(v)
    \/ afsk_space_freq
    \/ \E v \in AfskFreqArgs : set_afsk_space(v)
    \/ modem_baudrate
    \/ \E v \in BaudrateArgs : set_modem_baudrate(v)
    \/ modem_repeat
    \/ \E v \in RepeatArgs : set_modem_repeat(v)
    \/ serial_format
    \/ \E v \in SerialFormatArgs : set_serial_format(v)
    \/ show_gui_return_icon
    \/ load_app_settings
    \/ save_app_settings
    \/ show_bigger_qr_code
    \/ disable_touchscreen
    \/ hide_clock
    \/ clock_with_date
    \/ clkout_enabled
    \/ config_speaker
    \/ stealth_mode
    \/ config_login
    \/ config_splash
    \/ config_cpld
    \/ config_backlight_timer
    \/ \E v \in BOOLEAN : set_gui_return_icon(v)
    \/ \E v \in BOOLEAN : set_load_app_settings(v)
    \/ \E v \in BOOLEAN : set_save_app_settings(v)
    \/ \E v \in BOOLEAN : set_show_bigger_qr_code(v)
    \/ \E v \in BOOLEAN : set_disable_touchscreen(v)
    \/ \E v \in BOOLEAN : set_clock_hidden(v)
    \/ \E v \in BOOLEAN : set_clock_with_date(v)
    \/ \E v \in BOOLEAN : set_clkout_enabled(v)
    \/ \E v \in BOOLEAN : set_config_speaker(v)
    \/ \E v \in BOOLEAN : set_stealth_mode(v)
    \/ \E v \in BOOLEAN : set_config_login(v)
    \/ \E v \in BOOLEAN : set_config_splash(v)
    \/ \E i \in CpldArgs : set_config_cpld(i)
    \/ \E i \in BacklightArgs : set_config_backlight_timer(i)
    \/ pocsag_last_address
    \/ \E a \in AddressArgs : set_pocsag_last_address(a)
    \/ pocsag_ignore_address
    \/ \E a \in AddressArgs : set_pocsag_ignore_address(a)
    \/ clkout_freq
    \/ \E f \in ClkoutArgs : set_clkout_freq(f)

Spec == Init /\ [][Next]_vars

(***************************************************************************)
(* Callers that use the ranged members only, for longer call sequences.    *)
(***************************************************************************)
InitFields ==
    /\ NoCallYet(MaxFieldOps)
    /\ backup_ram = ForeignImage
    /\ \/ /\ cached_backup_ram = backup_ram_t
          /\ op = "boot"
       \/ /\ cached_backup_ram = ForeignImage
          /\ op = "init"

NextFields ==
    \/ correction_ppb
    \/ \E v \in PpbFieldArgs : set_correction_ppb(v)
    \/ tone_mix
    \/ \E v \in ToneMixFieldArgs : set_tone_mix(v)
    \/ afsk_mark_freq
    \/ \E v \in AfskFreqFieldArgs : set_afsk_mark(v)
    \/ afsk_space_freq
    \/ \E v \in AfskFreqFieldArgs : set_afsk_space(v)
    \/ modem_baudrate
    \/ \E v \in BaudrateFieldArgs : set_modem_baudrate(v)
    \/ modem_repeat
    \/ \E v \in RepeatFieldArgs : set_modem_repeat(v)
    \/ clkout_freq
    \/ \E f \in ClkoutFieldArgs : set_clkout_freq(f)

SpecFields == InitFields /\ [][NextFields]_vars

(***************************************************************************)
(* Properties of the cache life cycle.                                     *)
(***************************************************************************)
\* the check value of a record matches the CRC of its register file
CheckMatches(record) == record.check_value = compute_check_value(record)

\* the value of a signed member of a record
member(record, name) == AsInt32(record.regfile[data_t_offset[name]])

\* C1: init() adopts the backup RAM word for word, check word included, when
\* its check word equals the CRC of its 63 payload words; otherwise it leaves
\* the cache equal to the default record in every word (modem_baudrate is
\* 1200 again whatever the backup RAM held), and it returns nothing.
C1_InitAdoptsValidElseDefaults ==
    [][op' = "init" =>
          /\ ret' = NoValue
          /\ IF CheckMatches(backup_ram)
             THEN /\ \A i \in 1..RegfileWords :
                         cached_backup_ram'.regfile[i] = backup_ram.regfile[i]
                  /\ cached_backup_ram'.check_value = backup_ram.check_value
             ELSE /\ cached_backup_ram' = backup_ram_t
                  /\ member(cached_backup_ram', "modem_baudrate") = modem_baudrate_reset_value
                  /\ \A i \in 1..RegfileWords :
                         cached_backup_ram'.regfile[i] =
                             IF i <= Len(data_t) THEN data_t[i] ELSE ZeroWord
      ]_vars

\* init() has been called on a record that holds modem_baudrate 9600 under a
\* damaged check word, and the cache holds the defaults
C1_Witness ==
    /\ op = "init"
    /\ steps > 0
    /\ member(backup_ram, "modem_baudrate") = 9600
    /\ ~CheckMatches(backup_ram)
    /\ member(cached_backup_ram, "modem_baudrate") = 1200
    /\ cached_backup_ram = backup_ram_t

\* C2: only persist() modifies the backup RAM: every other operation leaves
\* its 63 payload words and its check word as they were.
C2_OnlyPersistWritesBackupRam ==
    [][op' # "persist" => backup_ram' = backup_ram]_vars

\* after init() adopted the foreign record and tone_mix() repaired the cached
\* member, the backup RAM still holds the out-of-range value
C2_Witness ==
    /\ op = "tone_mix"
    /\ steps = 2
    /\ member(cached_backup_ram, "correction_ppb") = 200000
    /\ member(cached_backup_ram, "tone_mix") = tone_mix_reset_value
    /\ member(backup_ram, "tone_mix") = -1

\* C3: persist() followed by init() leaves the cache as persist() left it,
\* payload words and check word.
C3_PersistInitRoundTrip ==
    [][(op = "persist" /\ steps > 0 /\ op' = "init")
          => cached_backup_ram' = cached_backup_ram]_vars

\* init() after a persist() of the default cache: the backup RAM holds the
\* default payload, which only that persist() can have written, and the cache
\* carries its check value
C3_Witness ==
    /\ op = "init"
    /\ steps = 2
    /\ backup_ram.regfile = backup_ram_t.regfile
    /\ cached_backup_ram = backup_ram
    /\ cached_backup_ram.check_value # ZeroWord

\* C4: after persist() the backup RAM is valid and equal to the cache in
\* every payload word and the check word, and persist() has changed nothing
\* in the cache but the check word.
C4_PersistPublishesValidRecord ==
    [][op' = "persist" =>
          /\ CheckMatches(backup_ram')
          /\ \A i \in 1..RegfileWords :
                 backup_ram'.regfile[i] = cached_backup_ram'.regfile[i]
          /\ backup_ram'.check_value = cached_backup_ram'.check_value
          /\ cached_backup_ram'.regfile = cached_backup_ram.regfile
      ]_vars

\* persist() after set_modem_baudrate(49): the backup RAM holds the clamped 50
C4_Witness ==
    /\ op = "persist"
    /\ steps = 2
    /\ member(backup_ram, "modem_baudrate") = 50
    /\ backup_ram = cached_backup_ram

\* C5 as stated: right after defaults(), the check word of the cached record
\* is the CRC of its payload.
C5_DefaultRecordIsValid ==
    (op = "defaults" /\ steps > 0) => CheckMatches(cached_backup_ram)

\* C5 amended: right after defaults(), and after init() on an invalid backup
\* RAM, the cache holds the default payload under the check word 0, which is
\* not the CRC of that payload; the persist() that follows makes the record
\* valid.
C5_DefaultRecordHasZeroCheck ==
    [][/\ (op' = "defaults" \/ (op' = "init" /\ ~CheckMatches(backup_ram))) =>
              /\ cached_backup_ram'.check_value = ZeroWord
              /\ cached_backup_ram'.regfile = backup_ram_t.regfile
              /\ ~CheckMatches(cached_backup_ram')
       /\ (op = "defaults" /\ steps > 0 /\ op' = "persist") =>
              /\ CheckMatches(cached_backup_ram')
              /\ CheckMatches(backup_ram')
              /\ backup_ram'.regfile = backup_ram_t.regfile
      ]_vars

\* defaults() has replaced the adopted foreign record, whose check word was
\* not 0
C5_Witness ==
    /\ op = "defaults"
    /\ steps > 0
    /\ backup_ram.check_value # ZeroWord
    /\ member(backup_ram, "tone_mix") = -1
    /\ cached_backup_ram.check_value = ZeroWord
    /\ member(cached_backup_ram, "tone_mix") = tone_mix_reset_value

(***************************************************************************)
(* Properties of the ranged members.                                       *)
(***************************************************************************)
\* the signed ranged members: getter, setter, member, range, reset value
RangedMembers ==
    {[getter |-> "correction_ppb", setter |-> "set_correction_ppb",
      name |-> "correction_ppb", lo |-> -99000, hi |-> 99000, reset |-> 0],
     [getter |-> "tone_mix", setter |-> "set_tone_mix",
      name |-> "tone_mix", lo |-> 10, hi |-> 99, reset |-> 20],
     [getter |-> "afsk_mark_freq", setter |-> "set_afsk_mark",
      name |-> "afsk_mark_freq", lo |-> 1, hi |-> 4000, reset |-> 1200],
     [getter |-> "afsk_space_freq", setter |-> "set_afsk_space",
      name |-> "afsk_space_freq", lo |-> 1, hi |-> 4000, reset |-> 2200],
     [getter |-> "modem_baudrate", setter |-> "set_modem_baudrate",
      name |-> "modem_baudrate", lo |-> 50, hi |-> 9600, reset |-> 1200],
     [getter |-> "modem_repeat", setter |-> "set_modem_repeat",
      name |-> "modem_repeat", lo |-> 1, hi |-> 99, reset |-> 5]}

\* the setters among them that take a signed argument
SignedSetters == {f \in RangedMembers : f.setter # "set_modem_repeat"}

\* the CLKOUT frequency held in bits 4-19 of the ui_config of a record
ClkoutOf(record) ==
    (record.regfile[data_t_offset.ui_config][1] \div 16)
    + (16 * record.regfile[data_t_offset.ui_config][2])
    + (4096 * (record.regfile[data_t_offset.ui_config][3] % 16))

\* the bits of the ui_config of a record outside bits 4-19
OutsideClkout(record) ==
    <<record.regfile[data_t_offset.ui_config][1] % 16,
      record.regfile[data_t_offset.ui_config][3] \div 16,
      record.regfile[data_t_offset.ui_config][4]>>

\* two records differ at most in the word of the given index
SameButWord(r1, r2, index) ==
    /\ r1.check_value = r2.check_value
    /\ \A i \in 1..RegfileWords : i # index => r1.regfile[i] = r2.regfile[i]

\* v saturated into lo..hi
Saturated(v, lo, hi) == IF v < lo THEN lo ELSE IF v > hi THEN hi ELSE v

\* C6: the getter of a ranged member whose stored value is outside [lo, hi]
\* overwrites it with the reset value and returns the reset value; otherwise
\* it returns the stored value and leaves the cache as it is.  The result is
\* in [lo, hi], no other member changes, and an immediate second call returns
\* the same value and changes nothing.
C6_ReadRepair ==
    [][/\ \A f \in RangedMembers :
              /\ op' = f.getter =>
                    LET old == member(cached_backup_ram, f.name)
                    IN  /\ IF old < f.lo \/ old > f.hi
                           THEN /\ ret' = f.reset
                                /\ member(cached_backup_ram', f.name) = f.reset
                           ELSE /\ ret' = old
                                /\ cached_backup_ram' = cached_backup_ram
                        /\ ret' >= f.lo /\ ret' <= f.hi
                        /\ SameButWord(cached_backup_ram', cached_backup_ram,
                                       data_t_offset[f.name])
              /\ (op = f.getter /\ op' = f.getter) =>
                    /\ ret' = ret
                    /\ cached_backup_ram' = cached_backup_ram
       /\ op' = "clkout_freq" =>
              LET old == ClkoutOf(cached_backup_ram)
              IN  /\ IF old < 10 \/ old > 60000
                     THEN /\ ret' = 10000
                          /\ ClkoutOf(cached_backup_ram') = 10000
                     ELSE /\ ret' = old
                          /\ cached_backup_ram' = cached_backup_ram
                  /\ ret' >= 10 /\ ret' <= 60000
                  /\ OutsideClkout(cached_backup_ram') = OutsideClkout(cached_backup_ram)
                  /\ SameButWord(cached_backup_ram', cached_backup_ram,
                                 data_t_offset.ui_config)
       /\ (op = "clkout_freq" /\ op' = "clkout_freq") =>
              /\ ret' = ret
              /\ cached_backup_ram' = cached_backup_ram
      ]_vars

\* tone_mix() has repaired the adopted foreign record, whose tone_mix was -1
C6_Witness ==
    /\ op = "tone_mix"
    /\ ret = 20
    /\ member(cached_backup_ram, "tone_mix") = 20
    /\ member(cached_backup_ram, "correction_ppb") = 200000
    /\ member(backup_ram, "tone_mix") = -1

\* a < b on the unsigned values of two words
UnsignedLess(a, b) ==
    \E j \in 1..4 : a[j] < b[j] /\ \A k \in (j + 1)..4 : a[k] = b[k]

\* C7 as stated: every ranged setter stores its argument saturated into
\* [lo, hi] (lo below the range, hi above it, the argument itself inside),
\* and the getter called right after returns exactly that value.
C7_SettersSaturate ==
    [][/\ \A f \in SignedSetters :
              /\ op' = f.setter =>
                    member(cached_backup_ram', f.name) = Saturated(arg', f.lo, f.hi)
              /\ (op = f.setter /\ op' = f.getter) =>
                    ret' = Saturated(arg, f.lo, f.hi)
       /\ op' = "set_modem_repeat" =>
              member(cached_backup_ram', "modem_repeat") =
                  IF UnsignedLess(arg', Int32Word(1)) THEN 1
                  ELSE IF UnsignedLess(Int32Word(99), arg') THEN 99
                  ELSE AsInt32(arg')
       /\ (op = "set_modem_repeat" /\ op' = "modem_repeat") =>
              ret' = member(cached_backup_ram, "modem_repeat")
       /\ op' = "set_clkout_freq" =>
              ClkoutOf(cached_backup_ram') =
                  IF UnsignedLess(arg', Int32Word(10)) THEN 10
                  ELSE IF UnsignedLess(Int32Word(60000), arg') THEN 60000
                  ELSE AsInt32(arg')
       /\ (op = "set_clkout_freq" /\ op' = "clkout_freq") =>
              ret' = ClkoutOf(cached_backup_ram)
      ]_vars

\* the arguments one below the minimum of each ranged setter
BelowMinimum ==
    [set_correction_ppb |-> -99001, set_tone_mix |-> 9, set_afsk_mark |-> 0,
     set_afsk_space |-> 0, set_modem_baudrate |-> 49,
     set_modem_repeat |-> Int32Word(0)]

\* C8 as stated: the setter called with lo-1 and then the getter returns the
\* reset value.
C8_BelowMinimumReadsReset ==
    [][/\ \A f \in RangedMembers :
              (op = f.setter /\ arg = BelowMinimum[f.setter] /\ op' = f.getter)
                  => ret' = f.reset
       /\ (op = "set_clkout_freq" /\ arg = Int32Word(9) /\ op' = "clkout_freq")
              => ret' = 10000
      ]_vars

\* C8 amended: the setter called with lo-1 stores lo, the getter called next
\* returns lo without changing the cache, and a second getter call returns
\* lo again.
C8_BelowMinimumReadsMinimum ==
    [][/\ \A f \in RangedMembers :
              /\ (op = f.setter /\ arg = BelowMinimum[f.setter] /\ op' = f.getter) =>
                    /\ ret' = f.lo
                    /\ cached_backup_ram' = cached_backup_ram
              /\ (op = f.getter /\ ret = f.lo /\ op' = f.getter) =>
                    /\ ret' = f.lo
                    /\ cached_backup_ram' = cached_backup_ram
       /\ (op = "set_clkout_freq" /\ arg = Int32Word(9) /\ op' = "clkout_freq") =>
              /\ ret' = 10
              /\ cached_backup_ram' = cached_backup_ram
       /\ (op = "clkout_freq" /\ ret = 10 /\ op' = "clkout_freq") =>
              /\ ret' = 10
              /\ cached_backup_ram' = cached_backup_ram
      ]_vars

\* the third call of a behaviour: modem_baudrate() returns the minimum 50,
\* which only set_modem_baudrate(49) stores
C8_Witness ==
    /\ op = "modem_baudrate"
    /\ steps = 3
    /\ ret = 50
    /\ member(cached_backup_ram, "modem_baudrate") = 50

\* C9 as stated: set_clkout_freq(5) followed by clkout_freq() returns the
\* reset value 10000.
C9_ClkoutBelowMinimumReadsReset ==
    [][(op = "set_clkout_freq" /\ arg = Int32Word(5) /\ op' = "clkout_freq")
          => ret' = 10000]_vars

\* C9 amended: set_clkout_freq(5) stores the minimum 10 in bits 4-19 and
\* leaves every other bit; clkout_freq() called next returns 10 and repairs
\* nothing.
C9_ClkoutBelowMinimumReadsMinimum ==
    [][/\ (op' = "set_clkout_freq" /\ arg' = Int32Word(5)) =>
              /\ ClkoutOf(cached_backup_ram') = 10
              /\ OutsideClkout(cached_backup_ram') = OutsideClkout(cached_backup_ram)
       /\ (op = "set_clkout_freq" /\ arg = Int32Word(5) /\ op' = "clkout_freq") =>
              /\ ret' = 10
              /\ cached_backup_ram' = cached_backup_ram
      ]_vars

\* clkout_freq() has returned 10 right after set_clkout_freq(5) on the
\* adopted foreign record
C9_Witness ==
    /\ op = "clkout_freq"
    /\ steps = 2
    /\ ret = 10
    /\ ClkoutOf(cached_backup_ram) = 10
    /\ ClkoutOf(backup_ram) = 5

(***************************************************************************)
(* Properties of the single-bit options of ui_config.                      *)
(***************************************************************************)
FlagSetterBit ==
    [set_gui_return_icon |-> 20, set_load_app_settings |-> 21,
     set_save_app_settings |-> 22, set_show_bigger_qr_code |-> 23,
     set_disable_touchscreen |-> 24, set_clock_hidden |-> 25,
     set_clock_with_date |-> 26, set_clkout_enabled |-> 27,
     set_config_speaker |-> 28, set_stealth_mode |-> 29,
     set_config_login |-> 30, set_config_splash |-> 31]

\* bit k (0..31) of a word
WordBit(w, k) == (w[(k \div 8) + 1] \div (2 ^ (k % 8))) % 2

\* C10: each of the twelve flag setters changes at most its own bit of
\* ui_config: the other flag bits, bits 0-2, bit 3, bits 4-19 and every other
\* word of the record keep their value.
C10_FlagBitIndependence ==
    [][\A name \in DOMAIN FlagSetterBit :
          op' = name =>
              /\ \A k \in 0..31 :
                     k # FlagSetterBit[name] =>
                         WordBit(cached_backup_ram'.regfile[data_t_offset.ui_config], k)
                         = WordBit(cached_backup_ram.regfile[data_t_offset.ui_config], k)
              /\ SameButWord(cached_backup_ram', cached_backup_ram,
                             data_t_offset.ui_config)
      ]_vars

\* set_config_login(false) has cleared bit 30 of the adopted foreign
\* ui_config 0x4040005a
C10_Witness ==
    /\ op = "set_config_login"
    /\ arg = FALSE
    /\ cached_backup_ram.regfile[data_t_offset.ui_config] = <<90, 0, 64, 0>>
    /\ backup_ram.regfile[data_t_offset.ui_config] = <<90, 0, 64, 64>>

(***************************************************************************)
(* Notification of the clock reference.                                    *)
(***************************************************************************)
\* C11 as stated: every step that changes the cached correction_ppb appends
\* the new value to the values passed to clock_manager.set_reference_ppb,
\* whether the step is set_correction_ppb, the read repair of
\* correction_ppb(), defaults() or init().
C11_EveryPpbChangeNotified ==
    [][member(cached_backup_ram', "correction_ppb")
           # member(cached_backup_ram, "correction_ppb")
       => notified' = Append(notified, member(cached_backup_ram', "correction_ppb"))
      ]_vars

(***************************************************************************)
(* The check value under corruption of the backup RAM: the backup RAM      *)
(* holds a payload with its CRC, one bit of it is inverted while the       *)
(* device is off, and init() decides on the result.                        *)
(***************************************************************************)
\* an erased payload
ErasedPayload == [i \in 1..RegfileWords |-> <<255, 255, 255, 255>>]

CheckPayloads ==
    <<ForeignPayload, backup_ram_t.regfile, ErasedPayload, SavedPayload>>

InitCheck ==
    /\ NoCallYet(MaxOps)
    /\ \E n \in 1..MaxPayloads :
          /\ n <= Len(CheckPayloads)
          /\ backup_ram =
                [regfile     |-> CheckPayloads[n],
                 check_value |-> compute_check_value([regfile |-> CheckPayloads[n]])]
    /\ cached_backup_ram = backup_ram_t
    /\ op = "boot"

\* bit k of word i of the payload in the backup RAM is inverted
corrupt_payload_bit(i, k) ==
    /\ op = "boot"
    /\ Call("corrupt_payload_bit", <<i, k>>, NoValue)
    /\ backup_ram' = [backup_ram EXCEPT
                         !.regfile[i] = BitXor(@, ShiftLeft(One, k))]
    /\ UNCHANGED <<cached_backup_ram, notified>>

\* bit k of the check value in the backup RAM is inverted
corrupt_check_bit(k) ==
    /\ op = "boot"
    /\ Call("corrupt_check_bit", <<k>>, NoValue)
    /\ backup_ram' = [backup_ram EXCEPT
                         !.check_value = BitXor(@, ShiftLeft(One, k))]
    /\ UNCHANGED <<cached_backup_ram, notified>>

NextCheck ==
    \/ \E i \in 1..RegfileWords : \E k \in 0..31 : corrupt_payload_bit(i, k)
    \/ \E k \in 0..31 : corrupt_check_bit(k)
    \/ init

SpecCheck == InitCheck /\ [][NextCheck]_vars

\* C12: a record made of a payload and the CRC-32 of the payload is valid
\* (init() adopts it whole); after one bit of the payload or of the check
\* value is inverted the record is not valid (init() loads the defaults).
C12_SingleBitFlipDetected ==
    [][/\ op' \in {"corrupt_payload_bit", "corrupt_check_bit"} =>
              /\ backup_ram' # backup_ram
              /\ ~is_valid(backup_ram')
       /\ (op = "boot" /\ op' = "init") =>
              /\ is_valid(backup_ram)
              /\ cached_backup_ram' = backup_ram
       /\ (op \in {"corrupt_payload_bit", "corrupt_check_bit"} /\ op' = "init") =>
              cached_backup_ram' = backup_ram_t
      ]_vars

\* init() has loaded the defaults after the top bit of the last payload word
\* of the foreign record was inverted
C12_Witness ==
    /\ op = "init"
    /\ backup_ram.regfile[RegfileWords] = <<0, 0, 0, 128>>
    /\ backup_ram.regfile[data_t_offset.correction_ppb] = Int32Word(200000)
    /\ cached_backup_ram = backup_ram_t

(***************************************************************************)
(* The operations on ui_config alone, after an init() that adopted a       *)
(* persisted record with an arbitrary ui_config.                           *)
(***************************************************************************)
\* ui_config values: default, foreign, all ones, zero, alternating bits
UiConfigValues ==
    {ui_config_reset_value, <<90, 0, 64, 64>>, <<255, 255, 255, 255>>, ZeroWord,
     <<170, 170, 170, 170>>, <<85, 85, 85, 85>>}

\* uint32_t i: none, inside, above 7, all ones
BacklightUiArgs == {Int32Word(0), Int32Word(3), Int32Word(9), <<255, 255, 255, 255>>}
\* uint32_t freq: below, inside, above 60000, all ones
ClkoutUiArgs == {Int32Word(5), Int32Word(25000), Int32Word(70000), <<255, 255, 255, 255>>}

InitUi ==
    /\ NoCallYet(MaxUiOps)
    /\ \E w \in UiConfigValues :
          backup_ram = persist_to(store(backup_ram_t, "ui_config", w))
    /\ cached_backup_ram = backup_ram
    /\ op = "init"

NextUi ==
    \/ show_gui_return_icon
    \/ load_app_settings
    \/ save_app_settings
    \/ show_bigger_qr_code
    \/ disable_touchscreen
    \/ hide_clock
    \/ clock_with_date
    \/ clkout_enabled
    \/ config_speaker
    \/ stealth_mode
    \/ config_login
    \/ config_splash
    \/ config_backlight_timer
    \/ \E v \in BOOLEAN : set_gui_return_icon(v)
    \/ \E v \in BOOLEAN : set_load_app_settings(v)
    \/ \E v \in BOOLEAN : set_save_app_settings(v)
    \/ \E v \in BOOLEAN : set_show_bigger_qr_code(v)
    \/ \E v \in BOOLEAN : set_disable_touchscreen(v)
    \/ \E v \in BOOLEAN : set_clock_hidden(v)
    \/ \E v \in BOOLEAN : set_clock_with_date(v)
    \/ \E v \in BOOLEAN : set_clkout_enabled(v)
    \/ \E v \in BOOLEAN : set_config_speaker(v)
    \/ \E v \in BOOLEAN : set_stealth_mode(v)
    \/ \E v \in BOOLEAN : set_config_login(v)
    \/ \E v \in BOOLEAN : set_config_splash(v)
    \/ \E i \in BacklightUiArgs : set_config_backlight_timer(i)
    \/ clkout_freq
    \/ \E freq \in ClkoutUiArgs : set_clkout_freq(freq)

SpecUi == InitUi /\ [][NextUi]_vars

\* bit k of the cached ui_config
UiBit(record, k) == WordBit(record.regfile[data_t_offset.ui_config], k)

\* C13: set_config_backlight_timer changes only bits 0-2 of ui_config;
\* set_clkout_freq and the read repair of clkout_freq() change only bits
\* 4-19; bit 3, the flag bits 20-31 and every other word keep their value,
\* whatever the prior ui_config and the 32-bit argument.
C13_MaskedSubFieldWrites ==
    [][/\ op' = "set_config_backlight_timer" =>
              /\ \A k \in 3..31 :
                     UiBit(cached_backup_ram', k) = UiBit(cached_backup_ram, k)
              /\ SameButWord(cached_backup_ram', cached_backup_ram,
                             data_t_offset.ui_config)
       /\ op' \in {"set_clkout_freq", "clkout_freq"} =>
              /\ \A k \in (0..3) \cup (20..31) :
                     UiBit(cached_backup_ram', k) = UiBit(cached_backup_ram, k)
              /\ SameButWord(cached_backup_ram', cached_backup_ram,
                             data_t_offset.ui_config)
      ]_vars

\* set_clkout_freq(0xffffffff) on the ui_config 0xffffffff has stored 60000
\* in bits 4-19 and left every other bit set: 0xfffea60f
C13_Witness ==
    /\ op = "set_clkout_freq"
    /\ arg = <<255, 255, 255, 255>>
    /\ backup_ram.regfile[data_t_offset.ui_config] = <<255, 255, 255, 255>>
    /\ cached_backup_ram.regfile[data_t_offset.ui_config] = <<15, 166, 254, 255>>

\* the getter that reads the bit a flag setter writes
FlagGetter ==
    [set_gui_return_icon |-> "show_gui_return_icon",
     set_load_app_settings |-> "load_app_settings",
     set_save_app_settings |-> "save_app_settings",
     set_show_bigger_qr_code |-> "show_bigger_qr_code",
     set_disable_touchscreen |-> "disable_touchscreen",
     set_clock_hidden |-> "hide_clock",
     set_clock_with_date |-> "clock_with_date",
     set_clkout_enabled |-> "clkout_enabled",
     set_config_speaker |-> "config_speaker",
     set_stealth_mode |-> "stealth_mode",
     set_config_login |-> "config_login",
     set_config_splash |-> "config_splash"]

\* C14: for each of the twelve flags, set_X(v) followed by the matching
\* getter returns v, for v true and false and whatever the prior ui_config,
\* and the getter changes nothing; the setter leaves its bit equal to v.
C14_FlagRoundTrip ==
    [][\A name \in DOMAIN FlagGetter :
          /\ op' = name =>
                UiBit(cached_backup_ram', FlagSetterBit[name]) = (IF arg' THEN 1 ELSE 0)
          /\ (op = name /\ op' = FlagGetter[name]) =>
                /\ ret' = arg
                /\ cached_backup_ram' = cached_backup_ram
      ]_vars

\* config_splash() has returned false after set_config_splash(false) on the
\* ui_config 0xffffffff
C14_Witness ==
    /\ op = "config_splash"
    /\ ret = FALSE
    /\ steps = 2
    /\ backup_ram.regfile[data_t_offset.ui_config] = <<255, 255, 255, 255>>
    /\ cached_backup_ram.regfile[data_t_offset.ui_config] = <<255, 255, 255, 127>>

(***************************************************************************)
(* Properties of the touch calibration.                                    *)
(***************************************************************************)
\* the calibration blob and the magic of a record
CalibrationOf(record) ==
    [k \in 1..CalibrationWords |->
        record.regfile[data_t_offset.touch_calibration + k - 1]]
MagicOf(record) == record.regfile[data_t_offset.touch_calibration_magic]

\* the words of a record outside the magic and the calibration blob
SameButCalibration(r1, r2) ==
    /\ r1.check_value = r2.check_value
    /\ \A i \in 1..RegfileWords :
          (i < data_t_offset.touch_calibration_magic
           \/ i >= data_t_offset.touch_calibration + CalibrationWords)
          => r1.regfile[i] = r2.regfile[i]

\* C15: touch_calibration() called when the stored magic is not 0x074af82f
\* installs the default calibration, sets the magic and returns the default;
\* when the magic matches it returns the stored blob and changes nothing.
\* After touch_calibration() and after set_touch_calibration() the magic is
\* 0x074af82f, and the blob stored by set_touch_calibration(c) is returned
\* unchanged by a touch_calibration() that follows.
C15_TouchCalibrationValidity ==
    [][/\ op' = "touch_calibration" =>
              /\ IF MagicOf(cached_backup_ram) # <<47, 248, 74, 7>>
                 THEN /\ CalibrationOf(cached_backup_ram') = DefaultCalibration
                      /\ ret' = DefaultCalibration
                 ELSE /\ ret' = CalibrationOf(cached_backup_ram)
                      /\ cached_backup_ram' = cached_backup_ram
              /\ SameButCalibration(cached_backup_ram', cached_backup_ram)
       /\ op' = "set_touch_calibration" =>
              /\ CalibrationOf(cached_backup_ram') = arg'
              /\ SameButCalibration(cached_backup_ram', cached_backup_ram)
       /\ op' \in {"touch_calibration", "set_touch_calibration"} =>
              MagicOf(cached_backup_ram') = <<47, 248, 74, 7>>
       /\ (op = "set_touch_calibration" /\ op' = "touch_calibration") =>
              /\ ret' = arg
              /\ cached_backup_ram' = cached_backup_ram
      ]_vars

\* touch_calibration() has installed the default calibration in the adopted
\* foreign record, whose magic was 0
C15_Witness ==
    /\ op = "touch_calibration"
    /\ ret = DefaultCalibration
    /\ MagicOf(backup_ram) = ZeroWord
    /\ MagicOf(cached_backup_ram) = <<47, 248, 74, 7>>
    /\ CalibrationOf(cached_backup_ram) = DefaultCalibration
    /\ member(cached_backup_ram, "correction_ppb") = 200000

(***************************************************************************)
(* Totality of set_modem_repeat over uint32_t.                             *)
(***************************************************************************)
\* C16 as stated: set_modem_repeat stores 99 for every unsigned argument
\* above 99 (2^31 and above included), 1 for the argument 0 and the argument
\* itself otherwise; modem_repeat() returns the stored value without
\* truncation to 8 bits.
C16_RepeatSaturatesOverUint32 ==
    [][/\ op' = "set_modem_repeat" =>
              member(cached_backup_ram', "modem_repeat") =
                  IF arg' = ZeroWord THEN 1
                  ELSE IF UnsignedLess(Int32Word(99), arg') THEN 99
                  ELSE AsInt32(arg')
       /\ op' = "modem_repeat" =>
              ret' = member(cached_backup_ram', "modem_repeat")
      ]_vars

(***************************************************************************)
(* The backlight timer index in bits 0-2 of ui_config.                     *)
(***************************************************************************)
\* the index held in bits 0-2 of the ui_config of a record
BacklightIndexOf(record) == record.regfile[data_t_offset.ui_config][1] % 8

\* C17 as stated: set_config_backlight_timer(i) stores i clipped into 0..7
\* (an argument above 7 stores 7); config_backlight_timer() returns no value
\* for the index 0 and otherwise the entry index-1 of
\* {5, 15, 30, 60, 180, 300, 600}.
C17_BacklightIndexClipped ==
    [][/\ op' = "set_config_backlight_timer" =>
              BacklightIndexOf(cached_backup_ram') =
                  IF UnsignedLess(Int32Word(7), arg') THEN 7 ELSE AsInt32(arg')
       /\ op' = "config_backlight_timer" =>
              /\ ret' = IF BacklightIndexOf(cached_backup_ram) = 0 THEN <<>>
                        ELSE << <<5, 15, 30, 60, 180, 300, 600>>[
                                    BacklightIndexOf(cached_backup_ram)] >>
              /\ cached_backup_ram' = cached_backup_ram
      ]_vars

(***************************************************************************)
(* The default record.                                                     *)
(***************************************************************************)
\* what each getter returns on the default record
DefaultReturn ==
    [tuned_frequency |-> <<<<0, 225, 245, 5>>, <<0, 0, 0, 0>>>>,  \* 100000000
     correction_ppb |-> 0,
     afsk_mark_freq |-> 1200,
     afsk_space_freq |-> 2200,
     modem_baudrate |-> 1200,
     modem_repeat |-> 5,
     tone_mix |-> 20,
     clkout_freq |-> 10000,
     config_backlight_timer |-> <<600>>,
     config_splash |-> TRUE,
     config_speaker |-> TRUE,
     show_gui_return_icon |-> FALSE,
     load_app_settings |-> FALSE,
     save_app_settings |-> FALSE,
     show_bigger_qr_code |-> FALSE,
     disable_touchscreen |-> FALSE,
     hide_clock |-> FALSE,
     clock_with_date |-> FALSE,
     clkout_enabled |-> FALSE,
     stealth_mode |-> FALSE,
     config_login |-> FALSE,
     pocsag_last_address |-> <<0, 0, 0, 0>>,
     pocsag_ignore_address |-> <<0, 0, 0, 0>>,
     config_cpld |-> 0,
     touch_calibration |-> DefaultCalibration]

\* C18: right after defaults() every getter returns the compiled-in value
\* (100000000, 0, 1200, 2200, 1200, 5, 20, 10000, 600 s for the index 7,
\* splash and speaker bit true, the other flags false, addresses 0, hardware
\* config 0, the default calibration under a valid magic) and leaves the
\* cache as it is; the payload words past the typed record are 0.
C18_DefaultsFixedPoint ==
    [][/\ op' = "defaults" =>
              /\ \A i \in 1..RegfileWords :
                     4 * (i - 1) >= sizeof_data_t =>
                         cached_backup_ram'.regfile[i] = <<0, 0, 0, 0>>
              /\ BacklightIndexOf(cached_backup_ram') = 7
              /\ MagicOf(cached_backup_ram') = <<47, 248, 74, 7>>
       /\ (op = "defaults" /\ op' \in DOMAIN DefaultReturn) =>
              /\ ret' = DefaultReturn[op']
              /\ cached_backup_ram' = cached_backup_ram
       /\ (op = "defaults" /\ op' = "serial_format") =>
              cached_backup_ram' = cached_backup_ram
      ]_vars

\* config_backlight_timer() has returned 600 s on the default record that
\* replaced the adopted foreign one
C18_Witness ==
    /\ op = "config_backlight_timer"
    /\ ret = <<600>>
    /\ steps = 2
    /\ cached_backup_ram = backup_ram_t
    /\ member(backup_ram, "correction_ppb") = 200000

(***************************************************************************)
(* persist() store by store, with the init() of a second execution context *)
(* that reaches the same backup RAM.  The first context adopted a persisted*)
(* record and changed one member since.                                    *)
(***************************************************************************)
\* the member changed since the last persist(), and its new word
PendingStores ==
    {<<"tuned_frequency", Int32Word(145000000)>>,
     <<"modem_baudrate", Int32Word(9600)>>,
     <<"hardware_config", Int32Word(2)>>}

InitPersist ==
    /\ NoCallYet(0)
    /\ backup_ram = persist_to(backup_ram_t)
    /\ \E s \in PendingStores : cached_backup_ram = store(backup_ram, s[1], s[2])
    /\ op = "boot"

\* persist_to: check_value = compute_check_value(), then copy begins
persist_to_begin ==
    /\ copying.pc = "idle"
    /\ cached_backup_ram' = persist_to(cached_backup_ram)
    /\ copying' = [pc |-> "copy", i |-> 0, before |-> backup_ram]
    /\ op' = "persist_to_begin"
    /\ UNCHANGED <<backup_ram, other, notified, arg, ret, steps, budget>>

\* copy whose first store also stores the check value
copy_word_check_first ==
    /\ copying.pc = "copy"
    /\ copying.i < RegfileWords
    /\ backup_ram' = [backup_ram EXCEPT
                         !.regfile[copying.i + 1] = cached_backup_ram.regfile[copying.i + 1],
                         !.check_value = cached_backup_ram.check_value]
    /\ copying' = [copying EXCEPT !.i = @ + 1]
    /\ op' = "copy_word"
    /\ UNCHANGED <<cached_backup_ram, other, notified, arg, ret, steps, budget>>

\* copy: dst.regfile[i] = src.regfile[i]
copy_word ==
    /\ copying.pc = "copy"
    /\ copying.i < RegfileWords
    /\ backup_ram' = [backup_ram EXCEPT
                         !.regfile[copying.i + 1] = cached_backup_ram.regfile[copying.i + 1]]
    /\ copying' = [copying EXCEPT !.i = @ + 1]
    /\ op' = "copy_word"
    /\ UNCHANGED <<cached_backup_ram, other, notified, arg, ret, steps, budget>>

\* copy: dst.check_value = src.check_value
copy_check_value ==
    /\ copying.pc = "copy"
    /\ copying.i = RegfileWords
    /\ backup_ram' = [backup_ram EXCEPT !.check_value = cached_backup_ram.check_value]
    /\ copying' = [copying EXCEPT !.pc = "done"]
    /\ op' = "copy_check_value"
    /\ UNCHANGED <<cached_backup_ram, other, notified, arg, ret, steps, budget>>

\* init() of the second context: backup_ram->is_valid()
other_is_valid ==
    /\ other.pc = "idle"
    /\ other' = [pc |-> IF is_valid(backup_ram) THEN "valid" ELSE "invalid",
                 seen |-> <<copying.pc, copying.i>>,
                 cached_backup_ram |-> backup_ram_t]
    /\ op' = "other_is_valid"
    /\ UNCHANGED <<backup_ram, cached_backup_ram, copying, notified, arg, ret, steps, budget>>

\* init() of the second context: cached_backup_ram = *backup_ram
other_adopt ==
    /\ other.pc = "valid"
    /\ other' = [other EXCEPT !.pc = "done",
                              !.cached_backup_ram = copy(backup_ram, @)]
    /\ op' = "other_adopt"
    /\ UNCHANGED <<backup_ram, cached_backup_ram, copying, notified, arg, ret, steps, budget>>

\* init() of the second context: defaults()
other_defaults ==
    /\ other.pc = "invalid"
    /\ other' = [other EXCEPT !.pc = "done",
                              !.cached_backup_ram = copy(backup_ram_t, @)]
    /\ op' = "other_defaults"
    /\ UNCHANGED <<backup_ram, cached_backup_ram, copying, notified, arg, ret, steps, budget>>

NextPersist ==
    \/ persist_to_begin
    \/ copy_word
    \/ copy_check_value
    \/ other_is_valid
    \/ other_adopt
    \/ other_defaults

SpecPersist == InitPersist /\ [][NextPersist]_vars

\* during the copy the backup RAM holds the new words up to the position of
\* the copy, the old words after it, and the old check value
CopyInOrder ==
    copying.pc = "copy" =>
        /\ backup_ram.check_value = copying.before.check_value
        /\ \A j \in 1..RegfileWords :
              backup_ram.regfile[j] = IF j <= copying.i
                                      THEN cached_backup_ram.regfile[j]
                                      ELSE copying.before.regfile[j]

\* the outcome the claim gives to an init() that ends on the image now in
\* the backup RAM, whose check value is still the old one
OutcomeOnImage ==
    IF copying.before.check_value = compute_check_value(backup_ram)
    THEN other'.cached_backup_ram = backup_ram
    ELSE other'.cached_backup_ram = backup_ram_t

====
